---- MODULE Spec2Model ----
(***************************************************************************)
(* Request pipeline of the NL-to-SQL assistant: trace context (tracer.py), *)
(* query enhancer (query_enhancer.py), structured logger and Timer         *)
(* (logger.py), bounded metrics collector (metrics.py), the                *)
(* Orchestrator.run life cycle (orchestrator.py) and the generation client *)
(* (cortex_client.py).                                                     *)
(*                                                                         *)
(* Python str values that the code only passes around are TLA+ strings;    *)
(* the question and the enhanced query, which the code inspects character  *)
(* by character, are sequences of one-character strings.                   *)
(***************************************************************************)
EXTENDS Integers, Sequences, FiniteSets, TLC

(***************************************************************************)
(* Bounds of the model.                                                    *)
(***************************************************************************)
MaxRuns == 2          \* invocations of Orchestrator.run explored by Spec
MaxRows == 1          \* rows a generation result may carry
ExtraRecords == 2     \* record_query calls explored beyond the capacity
MaxThreads == 2       \* threads calling record_query concurrently
MaxSummaries == 1     \* get_summary calls a concurrent reader makes
MaxPeriod == 3        \* longest repeating status pattern of recorded entries
MaxPad == 1           \* whitespace characters added to a question
MaxFlips == 2         \* letters of a question written in the other case

(***************************************************************************)
(* Text helpers: str.strip, str.lower, str.split, " ".join, "in".          *)
(***************************************************************************)
Whitespace == {" ", "\t", "\n"}

UpperCase ==
    <<"A", "B", "C", "D", "E", "F", "G", "H", "I", "J", "K", "L", "M",
      "N", "O", "P", "Q", "R", "S", "T", "U", "V", "W", "X", "Y", "Z">>
LowerCase ==
    <<"a", "b", "c", "d", "e", "f", "g", "h", "i", "j", "k", "l", "m",
      "n", "o", "p", "q", "r", "s", "t", "u", "v", "w", "x", "y", "z">>

LowerChar(c) ==
    IF \E i \in 1..Len(UpperCase) : UpperCase[i] = c
    THEN LowerCase[CHOOSE i \in 1..Len(UpperCase) : UpperCase[i] = c]
    ELSE c

Lower(s) == [i \in 1..Len(s) |-> LowerChar(s[i])]

RECURSIVE LStrip(_)
LStrip(s) ==
    IF s # <<>> /\ Head(s) \in Whitespace THEN LStrip(Tail(s)) ELSE s

RECURSIVE RStrip(_)
RStrip(s) ==
    IF s # <<>> /\ s[Len(s)] \in Whitespace
    THEN RStrip(SubSeq(s, 1, Len(s) - 1))
    ELSE s

Strip(s) == RStrip(LStrip(s))

\* str.split(): maximal runs of non-whitespace characters, in order
RECURSIVE SplitFrom(_, _, _)
SplitFrom(s, cur, acc) ==
    IF s = <<>>
    THEN IF cur = <<>> THEN acc ELSE Append(acc, cur)
    ELSE IF Head(s) \in Whitespace
         THEN SplitFrom(Tail(s), <<>>, IF cur = <<>> THEN acc ELSE Append(acc, cur))
         ELSE SplitFrom(Tail(s), Append(cur, Head(s)), acc)

Split(s) == SplitFrom(s, <<>>, <<>>)

RECURSIVE Join(_)
Join(tokens) ==
    IF tokens = <<>> THEN <<>>
    ELSE IF Len(tokens) = 1 THEN tokens[1]
    ELSE tokens[1] \o <<" ">> \o Join(Tail(tokens))

\* Python's "needle in haystack" on str: substring test
Contains(hay, needle) ==
    \E i \in 0..(Len(hay) - Len(needle)) :
        SubSeq(hay, i + 1, i + Len(needle)) = needle

(***************************************************************************)
(* query_enhancer.py                                                       *)
(***************************************************************************)
ABBREVIATIONS ==
    [k \in {<<"r", "e", "v">>, <<"q", "t", "y">>, <<"a", "v", "g">>} |->
        IF k = <<"r", "e", "v">> THEN <<"r", "e", "v", "e", "n", "u", "e">>
        ELSE IF k = <<"q", "t", "y">> THEN <<"q", "u", "a", "n", "t", "i", "t", "y">>
        ELSE <<"a", "v", "e", "r", "a", "g", "e">>]

date_keywords ==
    << <<"d", "a", "t", "e">>, <<"t", "i", "m", "e">>, <<"t", "o", "d", "a", "y">>,
       <<"y", "e", "s", "t", "e", "r", "d", "a", "y">>, <<"w", "e", "e", "k">>,
       <<"m", "o", "n", "t", "h">>, <<"y", "e", "a", "r">>, <<"a", "g", "o">>,
       <<"r", "e", "c", "e", "n", "t">>, <<"l", "a", "t", "e", "s", "t">>,
       <<"l", "a", "s", "t">> >>

Digits == <<"0", "1", "2", "3", "4", "5", "6", "7", "8", "9">>
Digit(n) == Digits[n + 1]

\* a date text without zero padding of month and day
isoformat_unpadded(d) ==
    << Digit(d.year \div 1000), Digit((d.year \div 100) % 10),
       Digit((d.year \div 10) % 10), Digit(d.year % 10), "-" >>
    \o (IF d.month >= 10 THEN <<Digit(d.month \div 10)>> ELSE <<>>) \o <<Digit(d.month % 10), "-">>
    \o (IF d.day >= 10 THEN <<Digit(d.day \div 10)>> ELSE <<>>) \o <<Digit(d.day % 10)>>

\* date.isoformat(): YYYY-MM-DD, zero padded
isoformat(d) ==
    << Digit(d.year \div 1000), Digit((d.year \div 100) % 10),
       Digit((d.year \div 10) % 10), Digit(d.year % 10), "-",
       Digit(d.month \div 10), Digit(d.month % 10), "-",
       Digit(d.day \div 10), Digit(d.day % 10) >>

DateClausePrefix ==
    <<".", " ", "(", "C", "u", "r", "r", "e", "n", "t", " ", "d", "a", "t", "e",
      " ", "i", "s", " ">>

\* an enhancer that keeps the case of the question
enhance_query_keeps_case(query, today) ==
    LET tokens == Split(Strip(query))
        expanded_tokens ==
            [i \in 1..Len(tokens) |->
                IF tokens[i] \in DOMAIN ABBREVIATIONS
                THEN ABBREVIATIONS[tokens[i]] ELSE tokens[i]]
        expanded == Join(expanded_tokens)
    IN  IF \E k \in 1..Len(date_keywords) : Contains(expanded, date_keywords[k])
        THEN expanded \o DateClausePrefix \o isoformat(today) \o <<")">>
        ELSE expanded

enhance_query(query, today) ==
    LET normalized == Strip(query)
        lowered == Lower(normalized)
        tokens == Split(lowered)
        expanded_tokens ==
            [i \in 1..Len(tokens) |->
                IF tokens[i] \in DOMAIN ABBREVIATIONS
                THEN ABBREVIATIONS[tokens[i]] ELSE tokens[i]]
        expanded == Join(expanded_tokens)
        needs_date_context ==
            \E k \in 1..Len(date_keywords) : Contains(expanded, date_keywords[k])
    IN  IF needs_date_context
        THEN expanded \o DateClausePrefix \o isoformat(today) \o <<")">>
        ELSE expanded

(***************************************************************************)
(* Python values shared by the components.                                 *)
(***************************************************************************)
NoneVal == "None"                 \* Python None
Unserializable == "<object>"      \* a value json.dumps raises TypeError on

\* an exception object: its class name and str(exc)
Exc(kind, msg) == [kind |-> kind, msg |-> msg]
NoExc == Exc("", "")
str(exc) == exc.msg
type_name(exc) == exc.kind

\* dict.get(key, default)
Get(d, key, default) == IF key \in DOMAIN d THEN d[key] ELSE default

(***************************************************************************)
(* tracer.py: one ContextVar, default None, read and written per context   *)
(* (each thread runs in its own context).                                  *)
(***************************************************************************)
Contexts == {"c1", "c2"}
TraceIds == {"t1", "t2"}
TraceValues == TraceIds \cup {NoneVal, Unserializable}

\* set_trace_id on a module-level global in place of the ContextVar
set_trace_id_global(var, ctx, trace_id) == [c \in DOMAIN var |-> trace_id]

set_trace_id(var, ctx, trace_id) == [var EXCEPT ![ctx] = trace_id]
get_trace_id(var, ctx) == var[ctx]

(***************************************************************************)
(* logger.py.  A keyword argument is [ser |-> json.dumps accepts it,       *)
(* val |-> the value]; an emitted event is the logging level used and the  *)
(* serialized record.                                                      *)
(***************************************************************************)
JVal(v) == [ser |-> TRUE, val |-> v]
JObj == [ser |-> FALSE, val |-> Unserializable]

\* json.dumps of None is null, of a str the str
JsonTraceId(t) == IF t = NoneVal THEN "null" ELSE t

\* log_event(step, level, **kwargs) called in a context whose bound trace id
\* is tid: [exc |-> the exception raised or NoExc, out |-> the events emitted]
log_event(tid, step, level, kwargs) ==
    LET log_data ==
            [k \in {"timestamp", "trace_id", "step"} \cup DOMAIN kwargs |->
                IF k \in DOMAIN kwargs THEN kwargs[k].val
                ELSE IF k = "timestamp" THEN "time"
                ELSE IF k = "trace_id" THEN JsonTraceId(tid)
                ELSE step]
        dumps_ok ==
            /\ \A k \in DOMAIN kwargs : kwargs[k].ser
            /\ ("trace_id" \in DOMAIN kwargs \/ tid # Unserializable)
        used_level ==
            IF level = "ERROR" THEN "ERROR"
            ELSE IF level = "WARNING" THEN "WARNING" ELSE "INFO"
    IN  IF dumps_ok
        THEN [exc |-> NoExc, out |-> << [level |-> used_level, json |-> log_data] >>]
        ELSE [exc |-> Exc("TypeError", "Object is not JSON serializable"),
              out |-> <<>>]

\* Timer whose __exit__ logs only when the body returned normally
Timer_silent_on_raise(tid, step, latency_ms, body_exc) ==
    IF body_exc # NoExc
    THEN [exc |-> body_exc, out |-> <<>>]
    ELSE LET ev == log_event(tid, step \o "_completed", "INFO",
                             [k \in {"latency_ms"} |-> JVal(latency_ms)])
         IN  [exc |-> ev.exc, out |-> ev.out]

\* "with Timer(step): body", seen from the end of the body: body_exc is the
\* exception the body raised (NoExc when it returned).  __exit__ logs
\* "{step}_completed" and returns None, so the body's exception propagates
\* unless log_event itself raises.
Timer(tid, step, latency_ms, body_exc) ==
    LET ev == log_event(tid, step \o "_completed", "INFO",
                        [k \in {"latency_ms"} |-> JVal(latency_ms)])
    IN  [exc |-> IF ev.exc # NoExc THEN ev.exc ELSE body_exc, out |-> ev.out]

(***************************************************************************)
(* metrics.py                                                              *)
(***************************************************************************)
max_queries == 100

\* QueryMetrics; oid is the identity of the Python object
QueryMetrics(oid, trace_id, user_query, enhanced_query, generated_sql, status, error_message, total_latency_ms, row_count) ==
    [oid |-> oid, trace_id |-> trace_id, timestamp |-> "now",
     user_query |-> user_query, enhanced_query |-> enhanced_query,
     generated_sql |-> generated_sql, status |-> status,
     error_message |-> error_message, total_latency_ms |-> total_latency_ms,
     row_count |-> row_count]

\* collections.defaultdict(int): c[key] += n, creating the key at 0
Bump(c, key, n) ==
    IF key \in DOMAIN c THEN [c EXCEPT ![key] = @ + n] ELSE (key :> n) @@ c

\* record_query with pop() in place of pop(0): the newest entry is evicted
record_query_pop_newest(q, c, metrics) ==
    LET q1 == Append(q, metrics)
        c1 == Bump(c, metrics.status, 1)
    IN  IF Len(q1) > max_queries
        THEN [queries |-> SubSeq(q1, 1, Len(q1) - 1),
              counts |-> Bump(c1, q1[Len(q1)].status, -1)]
        ELSE [queries |-> q1, counts |-> c1]

\* record_query without the tally decrement of the evicted entry
record_query_no_decrement(q, c, metrics) ==
    LET q1 == Append(q, metrics)
        c1 == Bump(c, metrics.status, 1)
    IN  IF Len(q1) > max_queries
        THEN [queries |-> Tail(q1), counts |-> c1]
        ELSE [queries |-> q1, counts |-> c1]

\* MetricsCollector.record_query on the collector state (q, c)
record_query(q, c, metrics) ==
    LET q1 == Append(q, metrics)
        c1 == Bump(c, metrics.status, 1)
    IN  IF Len(q1) > max_queries
        THEN [queries |-> Tail(q1), counts |-> Bump(c1, Head(q1).status, -1)]
        ELSE [queries |-> q1, counts |-> c1]

\* number of entries of q with the given status
CountStatus(q, s) == Cardinality({i \in 1..Len(q) : q[i].status = s})

RECURSIVE SumLatency(_)
SumLatency(q) ==
    IF q = <<>> THEN 0 ELSE Head(q).total_latency_ms + SumLatency(Tail(q))

\* round(success / total * 100, 1) in tenths of a percent.  The quotient is
\* a binary float: round() rounds its exact value half to even, and for the
\* window sizes of this collector the float lies below an exact tie at
\* 23/80, 49/80 and 51/80, which therefore round down.
FloatBelowTie == { <<23, 80>>, <<49, 80>>, <<51, 80>> }

success_rate_tenths(success, total) ==
    IF total > 0
    THEN LET n == success * 1000
             f == n \div total
             r2 == 2 * (n % total)
         IN  IF r2 > total THEN f + 1
             ELSE IF r2 < total THEN f
             ELSE IF <<success, total>> \in FloatBelowTie THEN f
             ELSE IF f % 2 = 1 THEN f + 1 ELSE f
    ELSE 0

\* summary_of with the rate cut to one decimal place instead of rounded
summary_of_truncated_rate(total, success, error, q) ==
    [total |-> total, success |-> success, error |-> error,
     success_rate_tenths |-> IF total > 0 THEN (success * 1000) \div total ELSE 0,
     avg_latency_ms |-> IF total > 0 THEN SumLatency(q) \div total ELSE 0]

\* lines 55-66 of get_summary, from the three values lines 51-53 read
summary_of(total, success, error, q) ==
    [total |-> total, success |-> success, error |-> error,
     success_rate_tenths |-> success_rate_tenths(success, total),
     avg_latency_ms |-> IF total > 0 THEN SumLatency(q) \div total ELSE 0]

\* MetricsCollector.get_summary on the collector state (q, c)
get_summary(q, c) ==
    summary_of(Len(q), Get(c, "success", 0), Get(c, "error", 0), q)

\* QueryMetrics.to_dict with "return self.__dict__": the caller receives the
\* attribute dict of the retained object itself
to_dict_same_object(m) == [alias |-> m.oid, d |-> m]

\* QueryMetrics.to_dict: dataclasses.asdict builds a new dict.  alias is the
\* identity of the retained object whose state the returned dict shares
\* (0: none), d the fields
to_dict(m) == [alias |-> 0, d |-> m]

\* list[-limit:]: a negative start counts from the end and is clamped to the
\* list, and -0 is 0, the start of the list
SliceLast(q, limit) ==
    LET n == Len(q)
        start == IF limit > 0 THEN (IF limit >= n THEN 0 ELSE n - limit)
                 ELSE IF -limit > n THEN n ELSE -limit
    IN  SubSeq(q, start + 1, n)

\* reversed(list)
Reversed(q) == [i \in 1..Len(q) |-> q[Len(q) + 1 - i]]

\* get_recent_queries with an explicit test for limit = 0
get_recent_queries_guarded(q, limit) ==
    LET recent == IF limit = 0 THEN <<>> ELSE SliceLast(q, limit)
    IN  [i \in 1..Len(recent) |-> to_dict(Reversed(recent)[i])]

\* MetricsCollector.get_recent_queries
get_recent_queries(q, limit) ==
    LET recent == SliceLast(q, limit)
    IN  [i \in 1..Len(recent) |-> to_dict(Reversed(recent)[i])]

\* get_query_by_trace_id iterating over reversed(self._queries)
RECURSIVE get_query_by_trace_id_newest(_, _)
get_query_by_trace_id_newest(q, trace_id) ==
    IF q = <<>> THEN <<>>
    ELSE IF q[Len(q)].trace_id = trace_id THEN << to_dict(q[Len(q)]) >>
    ELSE get_query_by_trace_id_newest(SubSeq(q, 1, Len(q) - 1), trace_id)

\* MetricsCollector.get_query_by_trace_id: the loop returns at the first
\* match; an Optional result is <<>> for None and <<d>> for a dict
RECURSIVE get_query_by_trace_id(_, _)
get_query_by_trace_id(q, trace_id) ==
    IF q = <<>> THEN <<>>
    ELSE IF Head(q).trace_id = trace_id THEN << to_dict(Head(q)) >>
    ELSE get_query_by_trace_id(Tail(q), trace_id)

\* MetricsCollector.get_all_trace_ids
get_all_trace_ids(q) == [i \in 1..Len(q) |-> q[i].trace_id]

(***************************************************************************)
(* The entries callers record in the store-level specifications: entry     *)
(* number oid has the status the plan gives it (the plan repeats with its  *)
(* period), a latency that varies with oid, and a trace id: the first      *)
(* entry has an identifier of its own, the later ones share two.           *)
(***************************************************************************)
Statuses == {"success", "error"}

Plans == UNION { [1..p -> Statuses] : p \in 1..MaxPeriod }

StatusOf(pl, oid) == pl[((oid - 1) % Len(pl)) + 1]

TraceIdOf(oid) == IF oid = 1 THEN "t0" ELSE IF oid % 2 = 1 THEN "t1" ELSE "t2"

\* the identifiers looked up: the recorded ones and one never recorded
LookupIds == {"t0", "t1", "t2", "t9"}

\* the limits passed to get_recent_queries (10 is its default)
RecentLimits == {0, 1, 2, 10}

EntryOf(pl, oid) ==
    QueryMetrics(oid, TraceIdOf(oid), <<"q">>, <<"q">>,
                 "SELECT 1", StatusOf(pl, oid),
                 IF StatusOf(pl, oid) = "error" THEN "Snowflake error: boom"
                 ELSE NoneVal,
                 (oid * 3) % 11, oid % 3)

(***************************************************************************)
(* State.                                                                  *)
(***************************************************************************)
VARIABLES
    queries,        \* MetricsCollector._queries of the singleton _collector
    counts,         \* MetricsCollector._counts
    trace_id_var,   \* tracer._trace_id_var, per context
    frame,          \* Orchestrator.run: position and local variables
    result,         \* what the caller of run has observed
    log,            \* events the logger emitted during the current run
    runs,           \* invocations of run so far
    obs,            \* per-run observations: client calls, record calls,
                    \* the collector state at entry, the client's outcome
    plan,           \* SpecStore, SpecConc: the entries the callers will record
    nrec,           \* SpecStore: record_query calls completed so far
    threads,        \* SpecConc: position and locals of each recording thread
    appended,       \* SpecConc: all entries in the order they were appended
    reader,         \* SpecConc: position and locals of a get_summary caller
    answer,         \* SpecStore: what the last read operation returned
    reqs,           \* SpecLog: per context, the request running in it
    text,           \* SpecEnh: a question, a reference date, the enhanced text
    client          \* SpecClient: the last generate_sql_and_results call

vars == <<queries, counts, trace_id_var, frame, result, log, runs, obs,
          plan, nrec, threads, appended, reader, answer, reqs, text, client>>

\* the variables of SpecEnh and SpecClient
others == <<text, client>>

\* the variables Orchestrator.run and its caller leave alone
aux == <<plan, nrec, threads, appended, reader, answer, reqs, others>>
\* the variables of the request thread, and those the collector leaves alone
runVars == <<trace_id_var, frame, result, log, runs, obs, others>>

(***************************************************************************)
(* Inputs.                                                                 *)
(***************************************************************************)
Questions ==
    { <<>>,
      <<" ", "\t">>,
      <<"s", "h", "o", "w", " ", "R", "E", "V">>,
      <<" ", "a", "v", "g", " ", " ", "l", "a", "s", "t", " ">> }

Dates == { [year |-> 2024, month |-> 1, day |-> 15] }

Latencies == {12}

RowLists == { [i \in 1..n |-> "row"] : n \in 0..MaxRows }

\* what generate_sql_and_results may hand back: a mapping, or a value
\* without .get (a stub returning None)
Mapping(d) == [mapping |-> TRUE, d |-> d]
NotMapping == [mapping |-> FALSE, d |-> <<>>]

GenOutcomes ==
    { [exc |-> NoExc,
       value |-> Mapping([generated_sql |-> "SELECT 1", rows |-> r,
                          columns |-> "cols", table_schema |-> "schema"])] :
         r \in RowLists }
    \cup { [exc |-> NoExc, value |-> NotMapping] }
    \cup { [exc |-> e, value |-> NotMapping] :
             e \in { Exc("CortexClientError", "Snowflake error: boom"),
                     Exc("RuntimeError", "connection reset") } }

(***************************************************************************)
(* Threads that call record_query and get_summary on the shared collector. *)
(***************************************************************************)
Threads == 1..MaxThreads

IdleThread ==
    [pc |-> "idle", metrics |-> EntryOf(<<"success">>, 0), loaded |-> 0,
     removed |-> EntryOf(<<"success">>, 0)]

IdleReader ==
    [pc |-> "idle", total |-> 0, success |-> 0, error |-> 0, calls |-> 0,
     summary |-> summary_of(0, 0, 0, <<>>)]

\* no read operation has returned since the last record_query
NoAnswer ==
    [op |-> "none", arg |-> "", limit |-> 0, ret |-> <<>>, ids |-> <<>>,
     summary |-> summary_of(0, 0, 0, <<>>)]

\* a context in which no request has bound an identifier or logged yet:
\* own is the identifier the request of this context bound last, op its last
\* call, seen what get_trace_id returned, and step, level, kwargs, exc, out
\* the arguments and outcome of its last log_event
IdleRequest ==
    [own |-> NoneVal, op |-> "none", seen |-> NoneVal, step |-> "",
     level |-> "", kwargs |-> <<>>, exc |-> NoExc, out |-> <<>>]

\* enhance_query has not been called
NoText ==
    [seed |-> 0, q |-> <<>>, d |-> [year |-> 2024, month |-> 1, day |-> 15],
     out |-> <<>>]

\* no CortexClient has been constructed, generate_sql_and_results has not
\* been called
NoClientCall == [built |-> FALSE, called |-> FALSE]

(***************************************************************************)
(* orchestrator.py: Orchestrator.run, one action per stage.                *)
(***************************************************************************)
NoResult == [kind |-> "none", exc |-> NoExc, value |-> <<>>]
Raised(e) == [kind |-> "raised", exc |-> e, value |-> <<>>]
Returned(v) == [kind |-> "returned", exc |-> NoExc, value |-> v]

\* the context (thread) whose successive requests Spec follows
MainContext == "c1"

IdleFrame ==
    [pc |-> "idle", ctx |-> MainContext, user_query |-> <<>>, trace_id |-> "t1",
     status |-> "error", error_message |-> NoneVal, generated_sql |-> "",
     row_count |-> 0, enhanced |-> <<>>, rows |-> <<>>, table_schema |-> "",
     cortex_result |-> NotMapping, exc |-> NoExc]

NoObs ==
    [gen_calls |-> 0, recorded |-> 0, entry_queries |-> <<>>,
     entry_counts |-> <<>>, gen |-> [exc |-> NoExc, value |-> NotMapping]]

\* the trace id log_event reads while the run executes
Tid == get_trace_id(trace_id_var, frame.ctx)

\* continue at pc "next", or enter the except clause with the exception
Goto(f, e, next) ==
    IF e # NoExc THEN [f EXCEPT !.exc = e, !.pc = "except"]
    ELSE [f EXCEPT !.pc = next]

\* Call with "if not user_query" in place of "if not user_query.strip()"
CallNoStrip(q, t) ==
    /\ frame.pc = "idle"
    /\ runs < MaxRuns
    /\ runs' = runs + 1
    /\ log' = <<>>
    /\ obs' = [NoObs EXCEPT !.entry_queries = queries, !.entry_counts = counts]
    /\ IF q = <<>>
       THEN /\ frame' = [IdleFrame EXCEPT !.user_query = q, !.trace_id = t]
            /\ result' = Raised(Exc("ValueError", "Query cannot be empty."))
       ELSE /\ frame' = [IdleFrame EXCEPT !.pc = "query_start",
                                          !.user_query = q, !.trace_id = t]
            /\ result' = NoResult
    /\ UNCHANGED aux
    /\ UNCHANGED <<queries, counts, trace_id_var>>

\* lines 29-40: the caller invokes run(q, t)
Call(q, t) ==
    /\ frame.pc = "idle"
    /\ runs < MaxRuns
    /\ runs' = runs + 1
    /\ log' = <<>>
    /\ obs' = [NoObs EXCEPT !.entry_queries = queries, !.entry_counts = counts]
    /\ IF Strip(q) = <<>>
       THEN /\ frame' = [IdleFrame EXCEPT !.user_query = q, !.trace_id = t]
            /\ result' = Raised(Exc("ValueError", "Query cannot be empty."))
       ELSE /\ frame' = [IdleFrame EXCEPT !.pc = "query_start",
                                          !.user_query = q, !.trace_id = t]
            /\ result' = NoResult
    /\ UNCHANGED aux
    /\ UNCHANGED <<queries, counts, trace_id_var>>

\* QueryStart that goes on to the generation call, before the enhancement
QueryStartThenClient ==
    /\ frame.pc = "query_start"
    /\ LET ev == log_event(Tid, "query_start", "INFO",
                           [k \in {"user_query"} |-> JVal(frame.user_query)])
       IN  /\ log' = log \o ev.out
           /\ frame' = Goto(frame, ev.exc, "cortex_total")
    /\ UNCHANGED aux
    /\ UNCHANGED <<queries, counts, trace_id_var, result, runs, obs>>

\* line 43
QueryStart ==
    /\ frame.pc = "query_start"
    /\ LET ev == log_event(Tid, "query_start", "INFO",
                           [k \in {"user_query"} |-> JVal(frame.user_query)])
       IN  /\ log' = log \o ev.out
           /\ frame' = Goto(frame, ev.exc, "enhance")
    /\ UNCHANGED aux
    /\ UNCHANGED <<queries, counts, trace_id_var, result, runs, obs>>

\* lines 45-46: enhance_query under Timer("enhance"); date.today() is read
Enhance ==
    /\ frame.pc = "enhance"
    /\ \E today \in Dates, latency_ms \in Latencies :
        LET tm == Timer(Tid, "enhance", latency_ms, NoExc)
        IN  /\ log' = log \o tm.out
            /\ frame' = Goto([frame EXCEPT !.enhanced =
                                  enhance_query(frame.user_query, today)],
                             tm.exc, "enhanced")
    /\ UNCHANGED aux
    /\ UNCHANGED <<queries, counts, trace_id_var, result, runs, obs>>

\* line 48
LogEnhanced ==
    /\ frame.pc = "enhanced"
    /\ LET ev == log_event(Tid, "enhanced", "INFO",
                           [k \in {"enhanced_query"} |-> JVal(frame.enhanced)])
       IN  /\ log' = log \o ev.out
           /\ frame' = Goto(frame, ev.exc, "cortex_total")
    /\ UNCHANGED aux
    /\ UNCHANGED <<queries, counts, trace_id_var, result, runs, obs>>

\* lines 50-51: the generation client is called under Timer("cortex_total")
CortexTotal ==
    /\ frame.pc = "cortex_total"
    /\ \E gen \in GenOutcomes, latency_ms \in Latencies :
        LET tm == Timer(Tid, "cortex_total", latency_ms, gen.exc)
            f1 == IF gen.exc = NoExc
                  THEN [frame EXCEPT !.cortex_result = gen.value]
                  ELSE frame
        IN  /\ log' = log \o tm.out
            /\ frame' = Goto(f1, tm.exc, "capture")
            /\ obs' = [obs EXCEPT !.gen_calls = @ + 1, !.gen = gen]
    /\ UNCHANGED aux
    /\ UNCHANGED <<queries, counts, trace_id_var, result, runs>>

\* Capture without "row_count = len(rows)"
CaptureNoRowCount ==
    /\ frame.pc = "capture"
    /\ LET r == frame.cortex_result
       IN  IF r.mapping
           THEN frame' = [frame EXCEPT
                             !.generated_sql = Get(r.d, "generated_sql", ""),
                             !.rows = Get(r.d, "rows", <<>>),
                             !.table_schema = Get(r.d, "table_schema", ""),
                             !.pc = "query_success"]
           ELSE frame' = Goto(frame,
                              Exc("AttributeError", "object has no attribute 'get'"),
                              "query_success")
    /\ UNCHANGED aux
    /\ UNCHANGED <<queries, counts, trace_id_var, result, log, runs, obs>>

\* Capture with status = "success" assigned before the result is read
CaptureStatusFirst ==
    /\ frame.pc = "capture"
    /\ LET r == frame.cortex_result
           f1 == [frame EXCEPT !.status = "success"]
       IN  IF r.mapping
           THEN LET rws == Get(r.d, "rows", <<>>)
                IN  frame' = [f1 EXCEPT
                                 !.generated_sql = Get(r.d, "generated_sql", ""),
                                 !.rows = rws,
                                 !.row_count = Len(rws),
                                 !.table_schema = Get(r.d, "table_schema", ""),
                                 !.pc = "query_success"]
           ELSE frame' = Goto(f1,
                              Exc("AttributeError", "object has no attribute 'get'"),
                              "query_success")
    /\ UNCHANGED aux
    /\ UNCHANGED <<queries, counts, trace_id_var, result, log, runs, obs>>

\* lines 53-56
Capture ==
    /\ frame.pc = "capture"
    /\ LET r == frame.cortex_result
       IN  IF r.mapping
           THEN LET rws == Get(r.d, "rows", <<>>)
                IN  frame' = [frame EXCEPT
                                 !.generated_sql = Get(r.d, "generated_sql", ""),
                                 !.rows = rws,
                                 !.row_count = Len(rws),
                                 !.table_schema = Get(r.d, "table_schema", ""),
                                 !.pc = "query_success"]
           ELSE frame' = Goto(frame,
                              Exc("AttributeError", "object has no attribute 'get'"),
                              "query_success")
    /\ UNCHANGED aux
    /\ UNCHANGED <<queries, counts, trace_id_var, result, log, runs, obs>>

\* lines 58-59
QuerySuccess ==
    /\ frame.pc = "query_success"
    /\ LET ev == log_event(Tid, "query_success", "INFO",
                           [k \in {"row_count"} |-> JVal(frame.row_count)])
       IN  /\ log' = log \o ev.out
           /\ frame' = Goto([frame EXCEPT !.status = "success"], ev.exc, "finally")
    /\ UNCHANGED aux
    /\ UNCHANGED <<queries, counts, trace_id_var, result, runs, obs>>

\* Except that records the failure itself, in addition to the finally clause
ExceptAlsoRecords ==
    /\ frame.pc = "except"
    /\ LET msg == str(frame.exc)
           ev == log_event(Tid, "query_error", "ERROR",
                           [k \in {"error", "error_type"} |->
                               IF k = "error" THEN JVal(msg)
                               ELSE JVal(type_name(frame.exc))])
           st == record_query(queries, counts,
                     QueryMetrics(runs, frame.trace_id, frame.user_query,
                                  frame.enhanced, frame.generated_sql, "error",
                                  msg, 0, frame.row_count))
       IN  /\ log' = log \o ev.out
           /\ frame' = [frame EXCEPT
                            !.error_message = msg,
                            !.exc = IF ev.exc # NoExc THEN ev.exc ELSE @,
                            !.pc = "finally"]
           /\ queries' = st.queries
           /\ counts' = st.counts
    /\ obs' = [obs EXCEPT !.recorded = @ + 1]
    /\ UNCHANGED aux
    /\ UNCHANGED <<trace_id_var, result, runs>>

\* Except that raises a new error built from the message instead of "raise"
ExceptWrapsError ==
    /\ frame.pc = "except"
    /\ LET msg == str(frame.exc)
           ev == log_event(Tid, "query_error", "ERROR",
                           [k \in {"error", "error_type"} |->
                               IF k = "error" THEN JVal(msg)
                               ELSE JVal(type_name(frame.exc))])
       IN  /\ log' = log \o ev.out
           /\ frame' = [frame EXCEPT
                            !.error_message = msg,
                            !.exc = IF ev.exc # NoExc THEN ev.exc
                                    ELSE Exc("RuntimeError", msg),
                            !.pc = "finally"]
    /\ UNCHANGED aux
    /\ UNCHANGED <<queries, counts, trace_id_var, result, runs, obs>>

\* Except that logs and re-raises without keeping the message
ExceptForgetsMessage ==
    /\ frame.pc = "except"
    /\ LET msg == str(frame.exc)
           ev == log_event(Tid, "query_error", "ERROR",
                           [k \in {"error", "error_type"} |->
                               IF k = "error" THEN JVal(msg)
                               ELSE JVal(type_name(frame.exc))])
       IN  /\ log' = log \o ev.out
           /\ frame' = [frame EXCEPT
                            !.exc = IF ev.exc # NoExc THEN ev.exc ELSE @,
                            !.pc = "finally"]
    /\ UNCHANGED aux
    /\ UNCHANGED <<queries, counts, trace_id_var, result, runs, obs>>

\* Except calling log_event without level="ERROR" (the default is "INFO")
ExceptLogsInfo ==
    /\ frame.pc = "except"
    /\ LET msg == str(frame.exc)
           ev == log_event(Tid, "query_error", "INFO",
                           [k \in {"error", "error_type"} |->
                               IF k = "error" THEN JVal(msg)
                               ELSE JVal(type_name(frame.exc))])
       IN  /\ log' = log \o ev.out
           /\ frame' = [frame EXCEPT
                            !.error_message = msg,
                            !.exc = IF ev.exc # NoExc THEN ev.exc ELSE @,
                            !.pc = "finally"]
    /\ UNCHANGED aux
    /\ UNCHANGED <<queries, counts, trace_id_var, result, runs, obs>>

\* lines 61-70: both except clauses run the same statements; "raise"
\* re-raises the caught exception unless log_event raised a new one
Except ==
    /\ frame.pc = "except"
    /\ LET msg == str(frame.exc)
           ev == log_event(Tid, "query_error", "ERROR",
                           [k \in {"error", "error_type"} |->
                               IF k = "error" THEN JVal(msg)
                               ELSE JVal(type_name(frame.exc))])
       IN  /\ log' = log \o ev.out
           /\ frame' = [frame EXCEPT
                            !.error_message = msg,
                            !.exc = IF ev.exc # NoExc THEN ev.exc ELSE @,
                            !.pc = "finally"]
    /\ UNCHANGED aux
    /\ UNCHANGED <<queries, counts, trace_id_var, result, runs, obs>>

\* recording placed at the end of the try body instead of a finally clause:
\* skipped when an exception is pending
FinallyOnSuccessOnly ==
    /\ frame.pc = "finally"
    /\ IF frame.exc = NoExc
       THEN /\ \E total_latency_ms \in Latencies :
                LET metrics == QueryMetrics(runs, frame.trace_id, frame.user_query,
                                            frame.enhanced, frame.generated_sql,
                                            frame.status, frame.error_message,
                                            total_latency_ms, frame.row_count)
                    st == record_query(queries, counts, metrics)
                IN  /\ queries' = st.queries
                    /\ counts' = st.counts
            /\ obs' = [obs EXCEPT !.recorded = @ + 1]
       ELSE UNCHANGED <<queries, counts, obs>>
    /\ frame' = [frame EXCEPT !.pc = "exit"]
    /\ UNCHANGED aux
    /\ UNCHANGED <<trace_id_var, result, log, runs>>

\* Finally that stores the identifier bound in the trace context
FinallyStoresBoundId ==
    /\ frame.pc = "finally"
    /\ \E total_latency_ms \in Latencies :
        LET metrics == QueryMetrics(runs, Tid, frame.user_query,
                                    frame.enhanced, frame.generated_sql,
                                    frame.status, frame.error_message,
                                    total_latency_ms, frame.row_count)
            st == record_query(queries, counts, metrics)
        IN  /\ queries' = st.queries
            /\ counts' = st.counts
    /\ obs' = [obs EXCEPT !.recorded = @ + 1]
    /\ frame' = [frame EXCEPT !.pc = "exit"]
    /\ UNCHANGED aux
    /\ UNCHANGED <<trace_id_var, result, log, runs>>

\* lines 71-84
Finally ==
    /\ frame.pc = "finally"
    /\ \E total_latency_ms \in Latencies :
        LET metrics == QueryMetrics(runs, frame.trace_id, frame.user_query,
                                    frame.enhanced, frame.generated_sql,
                                    frame.status, frame.error_message,
                                    total_latency_ms, frame.row_count)
            st == record_query(queries, counts, metrics)
        IN  /\ queries' = st.queries
            /\ counts' = st.counts
    /\ obs' = [obs EXCEPT !.recorded = @ + 1]
    /\ frame' = [frame EXCEPT !.pc = "exit"]
    /\ UNCHANGED aux
    /\ UNCHANGED <<trace_id_var, result, log, runs>>

\* the pending exception reaches the caller, or lines 86-92 return
Exit ==
    /\ frame.pc = "exit"
    /\ result' = IF frame.exc # NoExc
                 THEN Raised(frame.exc)
                 ELSE Returned([enhanced_query |-> frame.enhanced,
                                generated_sql |-> frame.generated_sql,
                                rows |-> frame.rows,
                                table_schema |-> frame.table_schema,
                                trace_id |-> frame.trace_id])
    /\ frame' = [frame EXCEPT !.pc = "idle"]
    /\ UNCHANGED aux
    /\ UNCHANGED <<queries, counts, trace_id_var, log, runs, obs>>

\* tracer.set_trace_id called by the code around run (streamlit_app.py binds
\* the identifier before it calls run); run itself never binds
SetTraceId(v) ==
    /\ frame.pc = "idle"
    /\ trace_id_var[MainContext] # v
    /\ trace_id_var' = set_trace_id(trace_id_var, MainContext, v)
    /\ UNCHANGED aux
    /\ UNCHANGED <<queries, counts, frame, result, log, runs, obs>>

Init ==
    /\ queries = <<>>
    /\ counts = <<>>
    /\ trace_id_var = [c \in Contexts |-> NoneVal]
    /\ frame = IdleFrame
    /\ result = NoResult
    /\ log = <<>>
    /\ runs = 0
    /\ obs = NoObs
    /\ plan = <<"success">>
    /\ nrec = 0
    /\ threads = [t \in Threads |-> IdleThread]
    /\ appended = <<>>
    /\ reader = IdleReader
    /\ answer = NoAnswer
    /\ reqs = [c \in Contexts |-> IdleRequest]
    /\ text = NoText
    /\ client = NoClientCall

Next ==
    \/ \E q \in Questions, t \in TraceIds : Call(q, t)
    \/ QueryStart
    \/ Enhance
    \/ LogEnhanced
    \/ CortexTotal
    \/ Capture
    \/ QuerySuccess
    \/ Except
    \/ Finally
    \/ Exit
    \/ \E v \in TraceValues : SetTraceId(v)

Spec == Init /\ [][Next]_vars

(***************************************************************************)
(* SpecStore: record_query calls made one after another on a new           *)
(* MetricsCollector (metrics.py lines 30-42).                              *)
(***************************************************************************)
idleRun ==
    /\ trace_id_var = [c \in Contexts |-> NoneVal]
    /\ frame = IdleFrame
    /\ result = NoResult
    /\ log = <<>>
    /\ runs = 0
    /\ obs = NoObs

idleThreads ==
    /\ threads = [t \in Threads |-> IdleThread]
    /\ appended = <<>>
    /\ reader = IdleReader
    /\ answer = NoAnswer
    /\ reqs = [c \in Contexts |-> IdleRequest]
    /\ text = NoText
    /\ client = NoClientCall

InitStore ==
    /\ queries = <<>>
    /\ counts = <<>>
    /\ plan \in Plans
    /\ nrec = 0
    /\ idleRun
    /\ idleThreads

\* one complete record_query call with the next entry of the plan
Record ==
    /\ nrec < max_queries + ExtraRecords
    /\ LET st == record_query(queries, counts, EntryOf(plan, nrec + 1))
       IN  /\ queries' = st.queries
           /\ counts' = st.counts
    /\ nrec' = nrec + 1
    /\ answer' = NoAnswer
    /\ UNCHANGED <<plan, threads, appended, reader, reqs>>
    /\ UNCHANGED runVars

\* get_recent_queries(limit)
GetRecentQueries(limit) ==
    /\ answer' = [NoAnswer EXCEPT !.op = "recent", !.limit = limit,
                                  !.ret = get_recent_queries(queries, limit)]
    /\ UNCHANGED <<queries, counts, plan, nrec, threads, appended, reader, reqs>>
    /\ UNCHANGED runVars

\* GetSummary reading the tally with self._counts[key]: the defaultdict
\* creates the keys it is asked for
GetSummaryIndexing ==
    /\ answer' = [NoAnswer EXCEPT !.op = "summary",
                                  !.summary = get_summary(queries, counts)]
    /\ counts' = Bump(Bump(counts, "success", 0), "error", 0)
    /\ UNCHANGED <<queries, plan, nrec, threads, appended, reader, reqs>>
    /\ UNCHANGED runVars

\* get_summary(): dict.get does not create a missing key
GetSummary ==
    /\ answer' = [NoAnswer EXCEPT !.op = "summary",
                                  !.summary = get_summary(queries, counts)]
    /\ UNCHANGED <<queries, counts, plan, nrec, threads, appended, reader, reqs>>
    /\ UNCHANGED runVars

\* get_query_by_trace_id(trace_id)
GetQueryByTraceId(trace_id) ==
    /\ answer' = [NoAnswer EXCEPT !.op = "by_trace_id", !.arg = trace_id,
                                  !.ret = get_query_by_trace_id(queries, trace_id)]
    /\ UNCHANGED <<queries, counts, plan, nrec, threads, appended, reader, reqs>>
    /\ UNCHANGED runVars

\* get_all_trace_ids()
GetAllTraceIds ==
    /\ answer' = [NoAnswer EXCEPT !.op = "all_trace_ids",
                                  !.ids = get_all_trace_ids(queries)]
    /\ UNCHANGED <<queries, counts, plan, nrec, threads, appended, reader, reqs>>
    /\ UNCHANGED runVars

\* the caller assigns to a key of the first dict it was handed; a retained
\* object sharing that dict changes with it
Tamper ==
    /\ answer.op \in {"recent", "by_trace_id"}
    /\ answer.ret # <<>>
    /\ answer' = [answer EXCEPT !.op = "tampered",
                                !.ret[1].d.status = "tampered"]
    /\ queries' = [i \in 1..Len(queries) |->
                      IF queries[i].oid = answer.ret[1].alias
                      THEN [queries[i] EXCEPT !.status = "tampered"]
                      ELSE queries[i]]
    /\ UNCHANGED <<counts, plan, nrec, threads, appended, reader, reqs>>
    /\ UNCHANGED runVars

NextStore ==
    \/ Record
    \/ \E limit \in RecentLimits : GetRecentQueries(limit)
    \/ GetSummary
    \/ \E trace_id \in LookupIds : GetQueryByTraceId(trace_id)
    \/ GetAllTraceIds
    \/ Tamper

SpecStore == InitStore /\ [][NextStore]_vars

(***************************************************************************)
(* SpecConc: MaxThreads threads each call record_query once on the shared  *)
(* singleton (get_collector) while another thread calls get_summary.  The  *)
(* methods hold no lock, so the interpreter may switch threads between the *)
(* steps of a statement: "counts[k] += 1" is a read followed by a write.   *)
(***************************************************************************)
\* window sizes at which the concurrent calls start
PriorSizes == {0, max_queries - 1, max_queries}

\* the plans with one status for all prior entries
ConcPlans == [1..1 -> Statuses]

InitConc ==
    /\ queries = <<>>
    /\ counts = <<>>
    /\ plan \in ConcPlans
    /\ nrec = 0
    /\ idleThreads
    /\ idleRun

\* before the threads start, entries are recorded one after another
PriorRecord ==
    /\ \A t \in Threads : threads[t].pc = "idle"
    /\ reader.pc = "idle" /\ reader.calls = 0
    /\ nrec < max_queries
    /\ LET st == record_query(queries, counts, EntryOf(plan, nrec + 1))
       IN  /\ queries' = st.queries
           /\ counts' = st.counts
    /\ nrec' = nrec + 1
    /\ appended' = Append(appended, EntryOf(plan, nrec + 1))
    /\ UNCHANGED <<plan, threads, reader>>
    /\ UNCHANGED <<runVars, answer, reqs>>

\* every thread enters record_query(metrics) with an entry of its own
Start(st) ==
    /\ \A t \in Threads : threads[t].pc = "idle"
    /\ nrec \in PriorSizes
    /\ threads' = [t \in Threads |->
                      [IdleThread EXCEPT
                          !.pc = "append",
                          !.metrics = EntryOf(<<st[t]>>, nrec + t)]]
    /\ UNCHANGED <<queries, counts, plan, nrec, appended, reader>>
    /\ UNCHANGED <<runVars, answer, reqs>>

\* line 37: self._queries.append(metrics)
AppendEntry(t) ==
    /\ threads[t].pc = "append"
    /\ queries' = Append(queries, threads[t].metrics)
    /\ appended' = Append(appended, threads[t].metrics)
    /\ threads' = [threads EXCEPT ![t].pc = "load_inc"]
    /\ UNCHANGED <<counts, plan, nrec, reader>>
    /\ UNCHANGED <<runVars, answer, reqs>>

\* line 38, read: self._counts[metrics.status] (a missing key is created at 0)
LoadInc(t) ==
    /\ threads[t].pc = "load_inc"
    /\ LET k == threads[t].metrics.status
       IN  /\ counts' = Bump(counts, k, 0)
           /\ threads' = [threads EXCEPT ![t].loaded = Get(counts, k, 0),
                                         ![t].pc = "store_inc"]
    /\ UNCHANGED <<queries, appended, plan, nrec, reader>>
    /\ UNCHANGED <<runVars, answer, reqs>>

\* line 38, write: self._counts[metrics.status] = loaded + 1
StoreInc(t) ==
    /\ threads[t].pc = "store_inc"
    /\ counts' = [counts EXCEPT ![threads[t].metrics.status] = threads[t].loaded + 1]
    /\ threads' = [threads EXCEPT ![t].pc = "check"]
    /\ UNCHANGED <<queries, appended, plan, nrec, reader>>
    /\ UNCHANGED <<runVars, answer, reqs>>

\* line 40: if len(self._queries) > self._max_queries
CheckLen(t) ==
    /\ threads[t].pc = "check"
    /\ threads' = [threads EXCEPT ![t].pc =
                      IF Len(queries) > max_queries THEN "pop" ELSE "done"]
    /\ UNCHANGED <<queries, counts, appended, plan, nrec, reader>>
    /\ UNCHANGED <<runVars, answer, reqs>>

\* line 41: removed = self._queries.pop(0)
Pop(t) ==
    /\ threads[t].pc = "pop"
    /\ queries # <<>>
    /\ queries' = Tail(queries)
    /\ threads' = [threads EXCEPT ![t].removed = Head(queries), ![t].pc = "load_dec"]
    /\ UNCHANGED <<counts, appended, plan, nrec, reader>>
    /\ UNCHANGED <<runVars, answer, reqs>>

\* line 42, read: self._counts[removed.status]
LoadDec(t) ==
    /\ threads[t].pc = "load_dec"
    /\ LET k == threads[t].removed.status
       IN  /\ counts' = Bump(counts, k, 0)
           /\ threads' = [threads EXCEPT ![t].loaded = Get(counts, k, 0),
                                         ![t].pc = "store_dec"]
    /\ UNCHANGED <<queries, appended, plan, nrec, reader>>
    /\ UNCHANGED <<runVars, answer, reqs>>

\* line 42, write: self._counts[removed.status] = loaded - 1
StoreDec(t) ==
    /\ threads[t].pc = "store_dec"
    /\ counts' = [counts EXCEPT ![threads[t].removed.status] = threads[t].loaded - 1]
    /\ threads' = [threads EXCEPT ![t].pc = "done"]
    /\ UNCHANGED <<queries, appended, plan, nrec, reader>>
    /\ UNCHANGED <<runVars, answer, reqs>>

\* get_summary line 51: total = len(self._queries)
ReadTotal ==
    /\ reader.pc = "idle"
    /\ reader.calls < MaxSummaries
    /\ \E t \in Threads : threads[t].pc # "idle"
    /\ reader' = [reader EXCEPT !.total = Len(queries), !.pc = "success"]
    /\ UNCHANGED <<queries, counts, appended, plan, nrec, threads>>
    /\ UNCHANGED <<runVars, answer, reqs>>

\* line 52: success = self._counts.get("success", 0)
ReadSuccess ==
    /\ reader.pc = "success"
    /\ reader' = [reader EXCEPT !.success = Get(counts, "success", 0), !.pc = "error"]
    /\ UNCHANGED <<queries, counts, appended, plan, nrec, threads>>
    /\ UNCHANGED <<runVars, answer, reqs>>

\* line 53: error = self._counts.get("error", 0)
ReadError ==
    /\ reader.pc = "error"
    /\ reader' = [reader EXCEPT !.error = Get(counts, "error", 0), !.pc = "rest"]
    /\ UNCHANGED <<queries, counts, appended, plan, nrec, threads>>
    /\ UNCHANGED <<runVars, answer, reqs>>

\* lines 55-66: the rates are computed and the summary is returned (the
\* latencies are summed over the list as it is at that moment)
ReturnSummary ==
    /\ reader.pc = "rest"
    /\ reader' = [reader EXCEPT
                     !.summary = summary_of(reader.total, reader.success,
                                            reader.error, queries),
                     !.calls = @ + 1,
                     !.pc = "idle"]
    /\ UNCHANGED <<queries, counts, appended, plan, nrec, threads>>
    /\ UNCHANGED <<runVars, answer, reqs>>

NextConc ==
    \/ PriorRecord
    \/ \E st \in [Threads -> Statuses] : Start(st)
    \/ \E t \in Threads :
         \/ AppendEntry(t)
         \/ LoadInc(t)
         \/ StoreInc(t)
         \/ CheckLen(t)
         \/ Pop(t)
         \/ LoadDec(t)
         \/ StoreDec(t)
    \/ ReadTotal
    \/ ReadSuccess
    \/ ReadError
    \/ ReturnSummary

SpecConc == InitConc /\ [][NextConc]_vars

(***************************************************************************)
(* SpecLog: requests running concurrently, one per context (thread), bind  *)
(* trace identifiers, read them back and call log_event, in any order.     *)
(***************************************************************************)
LogSteps == {"query_start", "custom"}
\* the level argument is any str
LogLevels == {"INFO", "WARNING", "ERROR", "DEBUG"}
\* **kwargs: none, a serializable field, a field json.dumps rejects, and a
\* field named like one of the record's own keys
LogFields ==
    { <<>>,
      [row_count |-> JVal(1)],
      [payload |-> JObj],
      [trace_id |-> JVal("tX")] }

\* what a request of SpecLog leaves alone
notLog == <<queries, counts, frame, result, log, runs, obs, plan, nrec,
            threads, appended, reader, answer, others>>

\* the request in context c calls set_trace_id(t)
Bind(c, t) ==
    /\ trace_id_var' = set_trace_id(trace_id_var, c, t)
    /\ reqs' = [reqs EXCEPT ![c] = [IdleRequest EXCEPT !.own = t, !.op = "set_trace_id"]]
    /\ UNCHANGED notLog

\* the request in context c calls get_trace_id()
Read(c) ==
    /\ reqs' = [reqs EXCEPT ![c] =
                   [IdleRequest EXCEPT !.own = reqs[c].own, !.op = "get_trace_id",
                                       !.seen = get_trace_id(trace_id_var, c)]]
    /\ UNCHANGED trace_id_var
    /\ UNCHANGED notLog

\* the request in context c calls log_event(step, level, **kwargs)
LogEvent(c, step, level, kwargs) ==
    /\ LET ev == log_event(get_trace_id(trace_id_var, c), step, level, kwargs)
       IN  reqs' = [reqs EXCEPT ![c] =
                       [IdleRequest EXCEPT !.own = reqs[c].own, !.op = "log_event",
                                           !.step = step, !.level = level,
                                           !.kwargs = kwargs,
                                           !.exc = ev.exc, !.out = ev.out]]
    /\ UNCHANGED trace_id_var
    /\ UNCHANGED notLog

NextLog ==
    \E c \in Contexts :
        \/ \E t \in TraceIds : Bind(c, t)
        \/ Read(c)
        \/ \E step \in LogSteps, level \in LogLevels, kwargs \in LogFields :
              LogEvent(c, step, level, kwargs)

SpecLog == Init /\ [][NextLog]_vars

(***************************************************************************)
(* SpecEnh: enhance_query(question, today) is called with a question and   *)
(* then with variants of it that differ in the case of a letter or in the  *)
(* amount of whitespace before, after or between its words.                *)
(***************************************************************************)
\* the questions asked, each with the text it is to be transformed into
SeedQuestions ==
    << [q |-> <<"R", "E", "V", " ", "a", "g", "o">>,
       transformed |-> <<"r", "e", "v", "e", "n", "u", "e", " ", "a", "g", "o">>],
      [q |-> <<"a", " ", "q", "t", "y">>,
       transformed |-> <<"a", " ", "q", "u", "a", "n", "t", "i", "t", "y">>],
      [q |-> <<"u", "p", "d", "a", "t", "e">>,
       transformed |-> <<"u", "p", "d", "a", "t", "e">>],
      [q |-> <<"p", "r", "e", " ", "r", "e", "v">>,
       transformed |-> <<"p", "r", "e", " ", "r", "e", "v", "e", "n", "u", "e">>] >>

ReferenceDates ==
    { [year |-> 2024, month |-> 1, day |-> 15],
      [year |-> 2023, month |-> 12, day |-> 5] }

IsLetter(c) == \E i \in 1..Len(UpperCase) : c = UpperCase[i] \/ c = LowerCase[i]

\* the letter c in the other case
SwapCase(c) ==
    IF \E i \in 1..Len(UpperCase) : UpperCase[i] = c
    THEN LowerCase[CHOOSE i \in 1..Len(UpperCase) : UpperCase[i] = c]
    ELSE UpperCase[CHOOSE i \in 1..Len(LowerCase) : LowerCase[i] = c]

\* position i of q (0: before the first character) is outside the words
Outside(q, i) ==
    IF i = 0 \/ i = Len(q) THEN TRUE
    ELSE q[i] \in Whitespace \/ q[i + 1] \in Whitespace

\* the characters of q that belong to its words
Letters(q) == SelectSeq(q, LAMBDA c : c \notin Whitespace)

\* how many letters of q differ in case from the question it is a variant of
Flipped(sd, q) ==
    Cardinality({i \in 1..Len(Letters(q)) : Letters(q)[i] # Letters(SeedQuestions[sd].q)[i]})

\* enhance_query is called with the question q
Asked(sd, q) ==
    [seed |-> sd, q |-> q, d |-> text.d, out |-> enhance_query(q, text.d)]

\* what SpecEnh leaves alone
notEnh == <<queries, counts, trace_id_var, frame, result, log, runs, obs, plan, nrec, threads, appended, reader, answer, reqs, client>>

\* the first call: a question and a reference date
Ask(sd, d) ==
    /\ text.seed = 0
    /\ text' = [seed |-> sd, q |-> SeedQuestions[sd].q, d |-> d,
                out |-> enhance_query(SeedQuestions[sd].q, d)]
    /\ UNCHANGED notEnh

\* the same question with the case of its i-th character changed
FlipCase(i) ==
    /\ text.seed # 0
    /\ i \in 1..Len(text.q)
    /\ IsLetter(text.q[i])
    /\ Flipped(text.seed, [text.q EXCEPT ![i] = SwapCase(@)]) <= MaxFlips
    /\ text' = Asked(text.seed, [text.q EXCEPT ![i] = SwapCase(@)])
    /\ UNCHANGED notEnh

\* the same question with one more whitespace character outside its words
InsertSpace(i, ch) ==
    /\ text.seed # 0
    /\ Len(text.q) < Len(SeedQuestions[text.seed].q) + MaxPad
    /\ i \in 0..Len(text.q)
    /\ Outside(text.q, i)
    /\ text' = Asked(text.seed,
                     SubSeq(text.q, 1, i) \o <<ch>> \o SubSeq(text.q, i + 1, Len(text.q)))
    /\ UNCHANGED notEnh

\* the same question with one whitespace character less, where another one
\* still separates the words
DeleteSpace(i) ==
    /\ text.seed # 0
    /\ i \in 1..Len(text.q)
    /\ text.q[i] \in Whitespace
    /\ IF i = 1 \/ i = Len(text.q) THEN TRUE
       ELSE text.q[i - 1] \in Whitespace \/ text.q[i + 1] \in Whitespace
    /\ text' = Asked(text.seed,
                     SubSeq(text.q, 1, i - 1) \o SubSeq(text.q, i + 1, Len(text.q)))
    /\ UNCHANGED notEnh

\* the positions of the longest question
Positions == 0..(7 + MaxPad)

NextEnh ==
    \/ \E sd \in 1..Len(SeedQuestions), d \in ReferenceDates : Ask(sd, d)
    \/ \E i \in Positions : FlipCase(i)
    \/ \E i \in Positions, ch \in Whitespace : InsertSpace(i, ch)
    \/ \E i \in Positions : DeleteSpace(i)

SpecEnh == Init /\ [][NextEnh]_vars

(***************************************************************************)
(* Claims about enhance_query, checked under SpecEnh.                      *)
(***************************************************************************)
\* the question the current one is a variant of
Seed == SeedQuestions[text.seed]

\* C22: a question that differs from another one only in letter case and in
\* the amount of leading, trailing or inner whitespace is enhanced, for the
\* same reference date, to the very text the other one is enhanced to
C22_VariantsEnhanceAlike ==
    text.seed # 0 => text.out = enhance_query(Seed.q, text.d)

\* a variant with a letter in the other case and more whitespace was enhanced
C22_Witness ==
    /\ text.seed # 0
    /\ Flipped(text.seed, text.q) > 0
    /\ Len(text.q) > Len(Seed.q)
    /\ Len(Split(text.q)) = 2

\* the temporal keywords, and the reference dates in ISO 8601 form
TemporalKeywords ==
    { <<"d", "a", "t", "e">>, <<"t", "i", "m", "e">>, <<"t", "o", "d", "a", "y">>,
      <<"y", "e", "s", "t", "e", "r", "d", "a", "y">>, <<"w", "e", "e", "k">>,
      <<"m", "o", "n", "t", "h">>, <<"y", "e", "a", "r">>, <<"a", "g", "o">>,
      <<"r", "e", "c", "e", "n", "t">>, <<"l", "a", "t", "e", "s", "t">>,
      <<"l", "a", "s", "t">> }
Iso8601(d) ==
    IF d.year = 2024
    THEN <<"2", "0", "2", "4", "-", "0", "1", "-", "1", "5">>
    ELSE <<"2", "0", "2", "3", "-", "1", "2", "-", "0", "5">>

C23_NoClauseWitness ==
    /\ text.seed # 0
    /\ text.q # Seed.q
    /\ text.out = <<"p", "r", "e", " ", "r", "e", "v", "e", "n", "u", "e">>

(***************************************************************************)
(* cortex_client.py: CortexClient.generate_sql_and_results and the helpers *)
(* it calls.  A text the client only assembles is a sequence of parts: a   *)
(* literal of the source, or a text it inspects character by character     *)
(* (the generated SQL, the message of a warehouse error).                  *)
(***************************************************************************)
MaxSql == 4           \* longest raw generation result built from SqlAlphabet

Lit(s) == [lit |-> s, chars |-> <<>>]
Chars(cs) == [lit |-> "", chars |-> cs]

\* the characters of a text whose parts are all inspected texts
RECURSIVE chars_of(_)
chars_of(msg) == IF msg = <<>> THEN <<>> ELSE Head(msg).chars \o chars_of(Tail(msg))

\* no exception was raised
NoError == Exc("", <<>>)
CortexClientError(msg) == Exc("CortexClientError", msg)

\* what session.sql(...).collect() does: raises exc, or returns a list of
\* `rows` rows whose first one holds the text generated_sql
Rows(n) == [exc |-> NoError, rows |-> n, generated_sql |-> <<>>]
Fails(e) == [exc |-> e, rows |-> 0, generated_sql |-> <<>>]
Generated(sql) == [exc |-> NoError, rows |-> 1, generated_sql |-> sql]

\* CortexClient._get_table_schema: info is the outcome of the statements of
\* its try block (lines 90-104), sample that of the fallback query (122)
_get_table_schema_unguarded(info, sample) ==
    IF info.exc.kind = ""
    THEN [exc |-> NoError,
          text |-> IF info.rows = 0
                   THEN <<Lit("IOT_TELEMETRY_DATA (columns unknown - check table exists)")>>
                   ELSE <<Lit("  - DEVICE (TEXT, NULL)")>>]
    ELSE IF sample.exc.kind # ""
    THEN [exc |-> sample.exc, text |-> <<>>]
    ELSE [exc |-> NoError,
          text |-> IF sample.rows > 0
                   THEN <<Lit("  - DEVICE")>>
                   ELSE <<Lit("IOT_TELEMETRY_DATA (unable to retrieve schema: ")>>
                        \o info.exc.msg \o <<Lit(")")>>]

_get_table_schema(info, sample) ==
    [exc |-> NoError,
     text |->
        IF info.exc.kind = ""
        THEN IF info.rows = 0
             THEN <<Lit("IOT_TELEMETRY_DATA (columns unknown - check table exists)")>>
             ELSE <<Lit("  - DEVICE (TEXT, NULL)")>>
        ELSE IF sample.exc.kind = "" /\ sample.rows > 0
             THEN <<Lit("  - DEVICE")>>
             ELSE <<Lit("IOT_TELEMETRY_DATA (unable to retrieve schema: ")>>
                  \o info.exc.msg \o <<Lit(")")>>]

\* CortexClient._invoke_cortex: one statement sent to the language model
_invoke_cortex(lm) ==
    IF lm.exc.kind # "" THEN [exc |-> lm.exc, value |-> <<>>, calls |-> 1]
    ELSE IF lm.rows = 0 \/ lm.generated_sql = <<>>
    THEN [exc |-> CortexClientError(<<Lit("Cortex Analyst returned an empty response.")>>),
          value |-> <<>>, calls |-> 1]
    ELSE [exc |-> NoError, value |-> lm.generated_sql, calls |-> 1]

\* str.replace(marker, ""): every non-overlapping occurrence, left to right
RECURSIVE Replace(_, _)
Replace(s, marker) ==
    IF Len(s) < Len(marker) THEN s
    ELSE IF SubSeq(s, 1, Len(marker)) = marker
    THEN Replace(SubSeq(s, Len(marker) + 1, Len(s)), marker)
    ELSE <<Head(s)>> \o Replace(Tail(s), marker)

\* the grave accent character (U+0060), written by name
Backtick == "GRAVE ACCENT"

Fence == <<Backtick, Backtick, Backtick>>
FenceSql == <<Backtick, Backtick, Backtick, "s", "q", "l">>
Terminator == <<";">>

\* CortexClient._clean_sql
_clean_sql(raw_sql) ==
    Strip(Replace(Replace(Replace(Strip(raw_sql), FenceSql), Fence), Terminator))

\* an execution step that sends the statement again when it failed
_execute_sql_again(sql, run) ==
    IF sql = <<>>
    THEN [exc |-> CortexClientError(<<Lit("Cortex Analyst did not provide a SQL statement.")>>),
          rows |-> 0, calls |-> 0]
    ELSE [exc |-> run.exc, rows |-> run.rows, calls |-> IF run.exc.kind # "" THEN 2 ELSE 1]

\* CortexClient._execute_sql: one statement sent to the warehouse
_execute_sql(sql, run) ==
    IF sql = <<>>
    THEN [exc |-> CortexClientError(<<Lit("Cortex Analyst did not provide a SQL statement.")>>),
          rows |-> 0, calls |-> 0]
    ELSE [exc |-> run.exc, rows |-> run.rows, calls |-> 1]

InvalidIdentifier == <<"i", "n", "v", "a", "l", "i", "d", " ", "i", "d", "e", "n", "t", "i", "f", "i", "e", "r">>

\* the handlers of lines 59-72 for the exception e raised in the try block;
\* cleaned_sql is bound only when _invoke_cortex has returned
Handle(e, bound, cleaned_sql, table_schema) ==
    IF e.kind = "SnowparkSQLException"
    THEN IF Contains(Lower(chars_of(e.msg)), InvalidIdentifier)
         THEN IF bound
              THEN CortexClientError(
                       <<Lit("Column name error: ")>> \o e.msg
                       \o <<Lit("\n\nGenerated SQL:\n"), Chars(cleaned_sql),
                            Lit("\n\nAvailable columns in IOT_TELEMETRY_DATA:\n")>>
                       \o table_schema
                       \o <<Lit("\n\nThe SQL is trying to use a column that doesn't exist. Please check the column names in your query.")>>)
              ELSE Exc("UnboundLocalError",
                       <<Lit("cannot access local variable 'cleaned_sql' where it is not associated with a value")>>)
         ELSE CortexClientError(<<Lit("Snowflake error: ")>> \o e.msg)
    ELSE CortexClientError(<<Lit("Unexpected error: ")>> \o e.msg)

\* the outcome of a call: the exception it ends with or the mapping it
\* returns, the statements sent to the language model and to the warehouse
\* for execution, the text executed, the schema description fetched, and
\* the step of the try block that raised with what
Outcome(exc, value, lm_calls, exec_calls, executed, table_schema, step, error) ==
    [exc |-> exc, value |-> value, lm_calls |-> lm_calls, exec_calls |-> exec_calls,
     executed |-> executed, table_schema |-> table_schema, step |-> step, error |-> error]

NoValue == [generated_sql |-> <<>>, rows |-> 0, columns |-> 0, table_schema |-> <<>>]

\* lines 54-81: the try block, its handlers and the returned mapping
TryBlock(w, table_schema) ==
    LET inv == _invoke_cortex(w.lm)
        cleaned_sql == _clean_sql(inv.value)
        ex == _execute_sql(cleaned_sql, w.run)
    IN  IF inv.exc.kind # ""
        THEN Outcome(Handle(inv.exc, FALSE, <<>>, table_schema), NoValue,
                     inv.calls, 0, <<>>, table_schema, "generation", inv.exc)
        ELSE IF ex.exc.kind # ""
        THEN Outcome(Handle(ex.exc, TRUE, cleaned_sql, table_schema), NoValue,
                     inv.calls, ex.calls, cleaned_sql, table_schema, "execution", ex.exc)
        ELSE Outcome(NoError,
                     [generated_sql |-> cleaned_sql, rows |-> ex.rows,
                      columns |-> IF ex.rows = 0 THEN 0 ELSE 1,
                      table_schema |-> table_schema],
                     inv.calls, ex.calls, cleaned_sql, table_schema, "", NoError)

\* lines 44-72: the body of the with statement
Body(w) ==
    LET first == _get_table_schema(w.info, w.sample)
        prompt == _get_table_schema(w.info2, w.sample2)
    IN  IF first.exc.kind # ""
        THEN Outcome(first.exc, NoValue, 0, 0, <<>>, <<>>, "schema", first.exc)
        ELSE IF prompt.exc.kind # ""
        THEN Outcome(prompt.exc, NoValue, 0, 0, <<>>, first.text, "schema", prompt.exc)
        ELSE TryBlock(w, first.text)

\* a context manager that lets the exceptions of the body through
_get_session_passing(session, body) ==
    IF session = NoneVal
    THEN Outcome(CortexClientError(<<Lit("No Snowflake session provided. Make sure to pass the session from Streamlit (st.connection('snowflake').session)")>>),
                 NoValue, 0, 0, <<>>, <<>>, "session", NoError)
    ELSE body

\* CortexClient._get_session around the body of the with statement
_get_session(session, body) ==
    IF session = NoneVal
    THEN Outcome(CortexClientError(<<Lit("No Snowflake session provided. Make sure to pass the session from Streamlit (st.connection('snowflake').session)")>>),
                 NoValue, 0, 0, <<>>, <<>>, "session", NoError)
    ELSE IF body.exc.kind # ""
    THEN [body EXCEPT !.exc = CortexClientError(<<Lit("Session error: ")>> \o body.exc.msg)]
    ELSE body

generate_sql_and_results(session, w) == _get_session(session, Body(w))

(***************************************************************************)
(* SpecClient: generate_sql_and_results is called on a client with or      *)
(* without a session, against a warehouse whose statements succeed or fail.*)
(***************************************************************************)
Sessions == {"session", NoneVal}

WarehouseErrors ==
    { Exc("SnowparkSQLException", <<Chars(<<"i", "n", "v", "a", "l", "i", "d", " ", "i", "d", "e", "n", "t", "i", "f", "i", "e", "r", " ", "X">>)>>),
      Exc("SnowparkSQLException", <<Chars(<<"I", "n", "v", "a", "l", "i", "d", " ", "I", "d", "e", "n", "t", "i", "f", "i", "e", "r">>)>>),
      Exc("SnowparkSQLException", <<Chars(<<"s", "y", "n", "t", "a", "x", " ", "e", "r", "r", "o", "r">>)>>),
      Exc("ConnectionError", <<Chars(<<"r", "e", "s", "e", "t">>)>>) }

\* raw generation results: every text over SqlAlphabet up to MaxSql
\* characters, and fenced and terminated statements
SqlAlphabet == {Backtick, ";", "x"}
RawSqls ==
    UNION { [1..n -> SqlAlphabet] : n \in 0..MaxSql }
    \cup { <<Backtick, Backtick, Backtick, "s", "q", "l", "\n", "x", ";", "\n", Backtick, Backtick, Backtick>>,
           <<" ", "x", " ", ";", "\n">>,
           <<Backtick, Backtick, Backtick, "\n", "x", " ", "y", "\n", Backtick, Backtick, Backtick>>,
           <<";", " ", "\t">> }

\* outcomes of the schema queries: columns found, none found, the
\* information-schema query failing with the sample query returning a row,
\* returning nothing, or failing too
SchemaOutcomes ==
    { [info |-> i, sample |-> Rows(0)] : i \in {Rows(2), Rows(0)} }
    \cup { [info |-> Fails(Exc("SnowparkSQLException", <<Chars(<<"n", "o", " ", "a", "c", "c", "e", "s", "s">>)>>)), sample |-> sm] :
             sm \in { Rows(1), Rows(0),
                      Fails(Exc("SnowparkSQLException", <<Chars(<<"n", "o", " ", "t", "a", "b", "l", "e">>)>>)) } }

LmOutcomes ==
    { Generated(sql) : sql \in RawSqls } \cup { Rows(0) } \cup { Fails(e) : e \in WarehouseErrors }

RunOutcomes == { Rows(n) : n \in 0..MaxRows } \cup { Fails(e) : e \in WarehouseErrors }

\* the second schema lookup (_build_prompt, line 140) sees the same table
\* or fails on its own
PromptSchemaOutcomes ==
    { s \in SchemaOutcomes : s.sample.exc.kind # "" \/ s.info.rows = 2 }

\* the warehouse a call meets: the outcomes of its statements in turn
Warehouse(s, s2, lm, run) ==
    [info |-> s.info, sample |-> s.sample, info2 |-> s2.info, sample2 |-> s2.sample,
     lm |-> lm, run |-> run]

notClient == <<queries, counts, trace_id_var, frame, result, log, runs, obs, plan, nrec, threads, appended, reader, answer, reqs, text>>

\* CortexClient(settings, session): a client with or without a session, and
\* the table its schema lookups will find
NewClient(session, s, s2) ==
    /\ ~client.built
    /\ client' = [built |-> TRUE, called |-> FALSE, session |-> session,
                  schema |-> s, schema2 |-> s2]
    /\ UNCHANGED notClient

\* the call made on the newly constructed client
GenerateSqlAndResults(lm, run) ==
    /\ client.built
    /\ ~client.called
    /\ LET w == Warehouse(client.schema, client.schema2, lm, run)
       IN  client' = [built |-> TRUE, called |-> TRUE, session |-> client.session,
                      w |-> w, out |-> generate_sql_and_results(client.session, w)]
    /\ UNCHANGED notClient

NextClient ==
    \/ \E session \in Sessions, s \in SchemaOutcomes, s2 \in PromptSchemaOutcomes :
          NewClient(session, s, s2)
    \/ \E lm \in LmOutcomes, run \in RunOutcomes : GenerateSqlAndResults(lm, run)

SpecClient == Init /\ [][NextClient]_vars

(***************************************************************************)
(* Claims about CortexClient, checked under SpecClient.                    *)
(***************************************************************************)
\* the call has ended; Out is its outcome
Out == client.out
\* a warehouse error of the unknown-column class was raised in the try block
UnknownColumn ==
    /\ Out.step \in {"generation", "execution"}
    /\ Out.error.kind = "SnowparkSQLException"
    /\ Contains(chars_of(Out.error.msg), InvalidIdentifier)

\* C21: one call of generate_sql_and_results sends at most one statement to
\* the language model and executes the generated SQL at most once, also
\* when a step fails
C21_NoRetry ==
    client.called => Out.lm_calls <= 1 /\ Out.exec_calls <= 1

\* the execution step failed after one generation and one execution
C21_Witness ==
    /\ client.called
    /\ Out.step = "execution"
    /\ Out.error.kind = "SnowparkSQLException"
    /\ Out.lm_calls = 1
    /\ Out.exec_calls = 1

\* C21, the part about Orchestrator.run (checked under Spec): one invocation
\* of run calls the generation client at most once
C21_RunCallsClientOnce == obs.gen_calls <= 1

\* C24: a call of generate_sql_and_results that fails raises a
\* CortexClientError, whatever was raised inside it
C24_FailsOnlyWithCortexClientError ==
    client.called => Out.exc.kind \in {"", "CortexClientError"}

\* an exception that is neither a warehouse error nor a CortexClientError
\* was raised inside the call and reached the caller as a CortexClientError
C24_Witness ==
    /\ client.called
    /\ Out.step = "generation"
    /\ Out.error.kind = "ConnectionError"
    /\ Out.exc.kind = "CortexClientError"

\* C25: the text that is executed, and returned as generated_sql, contains no
\* code-fence marker and does not end with a statement terminator or
\* whitespace
C25_ExecutedSqlIsNormalized ==
    (client.called /\ Out.exec_calls > 0) =>
        /\ ~Contains(Out.executed, Fence)
        /\ ~Contains(Out.executed, FenceSql)
        /\ Out.executed # <<>>
        /\ Out.executed[Len(Out.executed)] \notin (Whitespace \cup {";"})
        /\ Out.exc.kind = "" => Out.value.generated_sql = Out.executed

\* C26: when a warehouse error whose message contains "invalid identifier"
\* is raised in the generation step or in the execution step, the call
\* raises a CortexClientError whose message contains that message and the
\* schema description fetched at the start of the call
C26_UnknownColumnErrorEnriched ==
    (client.called /\ UnknownColumn) =>
        /\ Out.exc.kind = "CortexClientError"
        /\ Contains(Out.exc.msg, Out.error.msg)
        /\ Contains(Out.exc.msg, Out.table_schema)

\* C30: on a client with a session, whatever the schema queries do, the
\* lookup raises nothing and yields a text, the language model is invoked,
\* and a generated statement is executed
C30_SchemaLookupNeverFails ==
    (client.called /\ client.session # NoneVal) =>
        /\ Out.step # "schema"
        /\ Out.table_schema # <<>>
        /\ Out.lm_calls = 1
        /\ (client.w.lm.exc.kind = "" /\ client.w.lm.rows > 0
              /\ \E i \in 1..Len(client.w.lm.generated_sql) : client.w.lm.generated_sql[i] = "x")
           => Out.exec_calls = 1
        /\ Out.exc.kind = "" => Out.value.table_schema = Out.table_schema

\* both the information-schema query and the sample query failed, and the
\* call went on to return a result
C30_Witness ==
    /\ client.called
    /\ client.w.info.exc.kind # ""
    /\ client.w.sample.exc.kind # ""
    /\ Out.exc.kind = ""
    /\ Out.exec_calls = 1

(***************************************************************************)
(* Claims about Orchestrator.run, checked under Spec.                      *)
(***************************************************************************)
\* the last invocation of run has ended (its caller holds a result or an error)
Finished == frame.pc = "idle" /\ result.kind # "none"
\* the question of the last invocation is non-empty after trimming
Accepted == Strip(frame.user_query) # <<>>
\* the newest entry of the window
LastEntry == queries[Len(queries)]
\* the window is the window at entry plus one entry built by this invocation
OneEntryAdded ==
    /\ Len(queries) = Len(obs.entry_queries) + 1
    /\ SubSeq(queries, 1, Len(queries) - 1) = obs.entry_queries
    /\ LastEntry.oid = runs
    /\ LastEntry.user_query = frame.user_query

\* C1: every invocation of run with a question that is non-empty after
\* trimming calls record_query exactly once, whether it returns or raises and
\* whichever stage failed: never more than once while it executes, and when
\* it has ended the window is the window at entry plus this run's entry.
C1_ExactlyOneEntry ==
    /\ obs.recorded <= 1
    /\ (Finished /\ Accepted) => (obs.recorded = 1 /\ OneEntryAdded)
    /\ (frame.pc \in {"query_start", "enhance", "enhanced", "cortex_total",
                      "capture", "query_success", "except", "finally"})
          => (obs.recorded = 0 /\ queries = obs.entry_queries)

\* a run that failed while logging query_start (the bound trace id cannot be
\* serialized), before the client was called, has recorded its one entry
C1_Witness ==
    /\ Finished /\ Accepted
    /\ result.kind = "raised" /\ result.exc.kind = "TypeError"
    /\ obs.gen_calls = 0
    /\ obs.recorded = 1

\* C2: when the generation client call raises, run raises that same error
\* (same kind, same message) and the run's single entry has status "error"
\* and the error's message as error_message.
C2_GenerationErrorReraised ==
    (Finished /\ obs.gen_calls = 1 /\ obs.gen.exc # NoExc) =>
        /\ result = Raised(obs.gen.exc)
        /\ obs.recorded = 1
        /\ OneEntryAdded
        /\ LastEntry.status = "error"
        /\ LastEntry.error_message = str(obs.gen.exc)
        /\ LastEntry.error_message = str(result.exc)

C2_Witness ==
    /\ Finished
    /\ obs.gen.exc = Exc("CortexClientError", "Snowflake error: boom")
    /\ result.kind = "raised" /\ result.exc.kind = "CortexClientError"
    /\ LastEntry.status = "error"
    /\ LastEntry.error_message = "Snowflake error: boom"

C4_EmptyQuestionRejected ==
    (frame.pc = "idle" /\ runs > 0 /\ ~Accepted) =>
        /\ result = Raised(Exc("ValueError", "Query cannot be empty."))
        /\ queries = obs.entry_queries
        /\ DOMAIN counts = DOMAIN obs.entry_counts
        /\ \A k \in DOMAIN counts : counts[k] = obs.entry_counts[k]
        /\ obs.recorded = 0
        /\ obs.gen_calls = 0
        /\ log = <<>>

\* a whitespace-only question is rejected while the store holds an entry
C4_Witness ==
    /\ frame.pc = "idle" /\ runs > 0
    /\ frame.user_query = <<" ", "\t">>
    /\ result.kind = "raised" /\ result.exc.kind = "ValueError"
    /\ Len(queries) = 1

\* C5: when the generation client returns a result, run records an entry
\* with status "success", no error_message, the client's SQL and row_count =
\* number of rows returned, and returns the enhanced query, the SQL, the rows
\* and the trace id it was given.
C5_SuccessRecordedAndReturned ==
    (Finished /\ obs.gen_calls = 1 /\ obs.gen.exc = NoExc /\ obs.gen.value.mapping) =>
        LET d == obs.gen.value.d
        IN  /\ obs.recorded = 1
            /\ OneEntryAdded
            /\ LastEntry.status = "success"
            /\ LastEntry.error_message = NoneVal
            /\ LastEntry.generated_sql = d.generated_sql
            /\ LastEntry.row_count = Len(d.rows)
            /\ result.kind = "returned"
            /\ \E today \in Dates :
                 result.value.enhanced_query = enhance_query(frame.user_query, today)
            /\ result.value.enhanced_query = LastEntry.enhanced_query
            /\ result.value.generated_sql = d.generated_sql
            /\ result.value.rows = d.rows
            /\ result.value.trace_id = frame.trace_id
            /\ LastEntry.trace_id = frame.trace_id

\* a run whose client returned one row has returned and recorded row_count 1
C5_Witness ==
    /\ Finished
    /\ result.kind = "returned"
    /\ Len(result.value.rows) = 1
    /\ LastEntry.status = "success" /\ LastEntry.row_count = 1
    /\ LastEntry.oid = runs

\* C6: whenever run raises a pipeline error to its caller, the entry recorded
\* for that run has status "error"; the entry has status "success" only when
\* run returned a result.
C6_NoErrorRecordedAsSuccess ==
    (Finished /\ Accepted) =>
        /\ LastEntry.oid = runs
        /\ (result.kind = "raised" => LastEntry.status = "error")
        /\ (LastEntry.status = "success" => result.kind = "returned")
        /\ LastEntry.status \in {"success", "error"}

\* a run fails after the generation call has returned (the result has no
\* .get) and its entry has status "error"
C6_Witness ==
    /\ Finished /\ Accepted
    /\ obs.gen_calls = 1 /\ obs.gen.exc = NoExc
    /\ result.kind = "raised" /\ result.exc.kind = "AttributeError"
    /\ LastEntry.status = "error"

(***************************************************************************)
(* Claims about the metrics store.                                         *)
(***************************************************************************)
Min(a, b) == IF a <= b THEN a ELSE b
LastN(seq, n) == SubSeq(seq, Len(seq) - n + 1, Len(seq))
AllDone == \A t \in Threads : threads[t].pc = "done"

\* C7: after MaxThreads concurrent record_query calls have all completed,
\* under any interleaving, the window holds the last min(N, previous size +
\* MaxThreads) appended entries and the tally of each status equals the
\* number of entries with that status in the window.  (SpecConc)
C7_NoLostUpdate ==
    AllDone =>
        /\ Len(appended) = nrec + MaxThreads
        /\ queries = LastN(appended, Min(max_queries, nrec + MaxThreads))
        /\ \A s \in Statuses : Get(counts, s, 0) = CountStatus(queries, s)

\* C8: every summary returned by a get_summary call that ran concurrently
\* with record_query calls has success + error = total and total <= N.
\* (SpecConc)
C8_ConsistentSnapshot ==
    reader.calls > 0 =>
        /\ reader.summary.success + reader.summary.error = reader.summary.total
        /\ reader.summary.total <= max_queries

\* C9: after n record_query calls made one after another the window holds
\* exactly the last min(n, N) recorded entries, in recording order, N = 100:
\* its size never exceeds N and each eviction removed the oldest entry.
\* (SpecStore)
C9_WindowIsLastN ==
    /\ max_queries = 100
    /\ Len(queries) = Min(nrec, max_queries)
    /\ Len(queries) <= max_queries
    /\ \A i \in 1..Len(queries) :
         queries[i] = EntryOf(plan, nrec - Len(queries) + i)

\* two entries have been evicted from a full window: the oldest two
C9_Witness ==
    /\ nrec = max_queries + 2
    /\ Len(queries) = max_queries
    /\ queries[1].oid = 3
    /\ queries[max_queries].oid = nrec

\* C10: after any sequence of completed record_query calls the tally of each
\* status equals the number of retained entries with that status, and
\* get_summary reports success + error = total with success and error the
\* numbers of retained "success" and "error" entries.  (SpecStore)
C10_TallyMatchesWindow ==
    /\ \A s \in Statuses : Get(counts, s, 0) = CountStatus(queries, s)
    /\ DOMAIN counts \subseteq Statuses
    /\ LET sm == get_summary(queries, counts)
       IN  /\ sm.total = Len(queries)
           /\ sm.success + sm.error = sm.total
           /\ sm.success = CountStatus(queries, "success")
           /\ sm.error = CountStatus(queries, "error")

\* an "error" entry has been evicted from a window that holds both statuses
C10_Witness ==
    /\ nrec > max_queries
    /\ StatusOf(plan, nrec - max_queries) = "error"
    /\ CountStatus(queries, "success") > 0
    /\ CountStatus(queries, "error") > 0
    /\ get_summary(queries, counts).error = CountStatus(queries, "error")

(***************************************************************************)
(* Claims about the read operations of the collector, checked under        *)
(* SpecStore.                                                              *)
(***************************************************************************)
\* positions of the window whose entry carries the identifier t
Hits(t) == { i \in 1..Len(queries) : queries[i].trace_id = t }
\* the entries recorded so far that have left the window
Evicted == 1..(nrec - Len(queries))

\* C11, as claimed: get_query_by_trace_id(m.trace_id) returns exactly m for
\* every entry m in the window, None for every entry that has been evicted
\* and for an identifier never recorded, also when recorded entries share
\* an identifier.  (SpecStore)
C11_LookupReturnsEntry ==
    answer.op = "by_trace_id" =>
        /\ \A i \in Hits(answer.arg) :
              /\ Len(answer.ret) = 1
              /\ answer.ret[1].d = queries[i]
        /\ (\E k \in Evicted : TraceIdOf(k) = answer.arg) => answer.ret = <<>>
        /\ Hits(answer.arg) = {} => answer.ret = <<>>

\* C11, amended: get_query_by_trace_id(t) returns the oldest entry of the
\* window that carries t, with all the fields it was recorded with, and None
\* when no entry of the window carries t (never recorded, or every entry
\* with t evicted); so it returns m exactly while m is in the window and no
\* older entry with the same identifier is.  (SpecStore)
C11_LookupReturnsOldestMatch ==
    answer.op = "by_trace_id" =>
        IF Hits(answer.arg) = {}
        THEN answer.ret = <<>>
        ELSE /\ Len(answer.ret) = 1
             /\ answer.ret[1].d.trace_id = answer.arg
             /\ answer.ret[1].d = EntryOf(plan, answer.ret[1].d.oid)
             /\ answer.ret[1].d.oid \in (nrec - Len(queries) + 1)..nrec
             /\ \A i \in Hits(answer.arg) :
                   queries[i].oid >= answer.ret[1].d.oid

\* the first entry, the only one with its identifier, was found while in
\* the window; here it has been evicted and the lookup of an identifier that
\* several retained entries share returns the oldest of them
C11_Witness ==
    /\ answer.op = "by_trace_id"
    /\ nrec = max_queries + 1
    /\ answer.arg = "t2"
    /\ Cardinality(Hits("t2")) > 1
    /\ Hits("t0") = {}
    /\ answer.ret # <<>>
    /\ answer.ret[1].d.oid = 2

\* C12: get_recent_queries(limit) with limit >= 0 returns exactly
\* min(limit, size) entries, the most recently recorded ones, most recent
\* first; get_recent_queries(0) returns no entries.  (SpecStore)
C12_RecentIsLastLimit ==
    (answer.op = "recent" /\ answer.limit >= 0) =>
        /\ Len(answer.ret) = Min(answer.limit, Len(queries))
        /\ \A i \in 1..Len(answer.ret) :
              answer.ret[i].d = queries[Len(queries) + 1 - i]

\* the latencies of the recorded entries lo..hi, added up
RECURSIVE RecordedLatency(_, _)
RecordedLatency(lo, hi) ==
    IF lo > hi THEN 0
    ELSE EntryOf(plan, hi).total_latency_ms + RecordedLatency(lo, hi - 1)

\* C13: get_summary returns total equal to the window size; success_rate
\* equal to success / total * 100 rounded to one decimal place (a tenth
\* nearest to the quotient), 0 when total is 0; avg_latency_ms equal to the
\* mean of total_latency_ms over the retained entries cut to an integer,
\* evicted entries excluded, 0 when total is 0.  (SpecStore)
C13_SummaryValues ==
    answer.op = "summary" =>
        LET sm == answer.summary
            sum == RecordedLatency(nrec - Len(queries) + 1, nrec)
            d == sm.success_rate_tenths * sm.total - 1000 * sm.success
        IN  /\ sm.total = Len(queries)
            /\ sm.total = 0 => (sm.success_rate_tenths = 0 /\ sm.avg_latency_ms = 0)
            /\ sm.total > 0 =>
                  /\ 2 * d <= sm.total
                  /\ -2 * d <= sm.total
                  /\ sm.avg_latency_ms * sm.total <= sum
                  /\ sum < (sm.avg_latency_ms + 1) * sm.total

\* a summary of a full window after evictions, with both statuses present
\* and a mean that is not an integer
C13_Witness ==
    /\ answer.op = "summary"
    /\ nrec > max_queries
    /\ answer.summary.total = max_queries
    /\ answer.summary.success > 0
    /\ answer.summary.error > 0
    /\ RecordedLatency(nrec - max_queries + 1, nrec) % max_queries # 0
    /\ RecordedLatency(1, nrec - max_queries) > 0

\* C14: get_recent_queries, get_summary, get_query_by_trace_id and
\* get_all_trace_ids leave the window (contents and order) and the tally
\* (values and keys) as they were, and what they return is a copy: a caller
\* changing a returned record changes no retained entry.  Every step of
\* SpecStore other than a record_query call is such a read or such a change
\* of a returned record.  (SpecStore)
C14_ReadsLeaveStoreUnchanged ==
    [][nrec' = nrec => (queries' = queries /\ counts' = counts)]_vars

\* the caller has changed the newest record get_recent_queries returned,
\* and the retained entries are the recorded ones
C14_Witness ==
    /\ answer.op = "tampered"
    /\ answer.limit = 2
    /\ Len(answer.ret) = 2
    /\ answer.ret[1].d.status = "tampered"
    /\ answer.ret[1].d.oid = nrec
    /\ queries[Len(queries)] = EntryOf(plan, nrec)
    /\ DOMAIN counts = {"success"}

(***************************************************************************)
(* Claims about the trace context and the logger, checked under SpecLog.   *)
(***************************************************************************)
\* C15: when requests run concurrently in contexts of their own and each
\* binds its own identifier, get_trace_id in a request returns the
\* identifier that request bound, under any interleaving: the value a
\* context holds is the one it bound last (None before its first bind),
\* whatever the other context binds.  (SpecLog)
C15_TraceIdRequestScoped ==
    \A c \in Contexts :
        /\ get_trace_id(trace_id_var, c) = reqs[c].own
        /\ reqs[c].op = "get_trace_id" => reqs[c].seen = reqs[c].own

\* both requests have bound different identifiers and one has read its own
\* back
C15_Witness ==
    /\ reqs["c1"].own = "t1"
    /\ reqs["c2"].own = "t2"
    /\ reqs["c2"].op = "set_trace_id"
    /\ reqs["c1"].op = "get_trace_id"
    /\ reqs["c1"].seen = "t1"

\* C17: log_event never raises, whatever step, level and fields it is
\* given, fields json.dumps cannot serialize included.  (SpecLog)
C17_LogEventNeverRaises ==
    \A c \in Contexts : reqs[c].op = "log_event" => reqs[c].exc = NoExc

\* C18: every record log_event emits contains timestamp, trace_id, step and
\* level (INFO, WARNING or ERROR) and the caller's fields, where trace_id is
\* the identifier bound in the caller's context, "none" when none is bound.
\* (SpecLog)
C18_RecordFields ==
    \A c \in Contexts :
        (reqs[c].op = "log_event" /\ reqs[c].out # <<>>) =>
            LET json == reqs[c].out[1].json
                bound == get_trace_id(trace_id_var, c)
            IN  /\ Len(reqs[c].out) = 1
                /\ {"timestamp", "trace_id", "step", "level"} \subseteq DOMAIN json
                /\ DOMAIN reqs[c].kwargs \subseteq DOMAIN json
                /\ json.step = reqs[c].step
                /\ json.level \in {"INFO", "WARNING", "ERROR"}
                /\ json.trace_id = IF bound = NoneVal THEN "none" ELSE bound

(***************************************************************************)
(* Claims about the events Orchestrator.run logs, checked under Spec.      *)
(***************************************************************************)
\* C16: run binds the trace identifier it is given before it logs
\* query_start, so every event emitted during run(question, t) carries
\* trace_id t, whatever was bound before the call.  (Spec)
C16_RunEventsCarryGivenId ==
    \A i \in 1..Len(log) : log[i].json.trace_id = frame.trace_id

\* the events of the sequence l whose step is the given one
CountStep(l, step) == Cardinality({ i \in 1..Len(l) : l[i].json.step = step })

\* C19: each Timer(step) scope emits exactly one "{step}_completed" event
\* when it is left, whether the wrapped stage returned or raised, and in the
\* raising case the stage's error leaves the scope after the event: in run,
\* one enhance_completed once the enhance scope is left, one
\* cortex_total_completed per call of the generation client, and the
\* client's error is the one the except clause receives.  (Spec)
C19_TimerEmitsOnEveryExit ==
    /\ CountStep(log, "enhance_completed") = IF frame.enhanced # <<>> THEN 1 ELSE 0
    /\ CountStep(log, "cortex_total_completed") = obs.gen_calls
    /\ \A i \in 1..Len(log) :
          log[i].json.step \in {"enhance_completed", "cortex_total_completed"}
              => "latency_ms" \in DOMAIN log[i].json
    /\ (frame.pc = "except" /\ obs.gen_calls = 1 /\ obs.gen.exc # NoExc)
          => frame.exc = obs.gen.exc

\* the generation client raised inside the cortex_total scope: the event
\* was emitted and the client's error reached the except clause
C19_Witness ==
    /\ frame.pc = "except"
    /\ obs.gen_calls = 1
    /\ obs.gen.exc = Exc("CortexClientError", "Snowflake error: boom")
    /\ frame.exc = obs.gen.exc
    /\ CountStep(log, "cortex_total_completed") = 1
    /\ CountStep(log, "enhance_completed") = 1
    /\ log[Len(log)].json.step = "cortex_total_completed"

\* the ERROR-level events of the last invocation of run
ErrorEvents == { i \in 1..Len(log) : log[i].level = "ERROR" }
\* the invocation emitted exactly one ERROR-level event: query_error, with
\* the message and the kind of the error the caller received
OneQueryError ==
    /\ Cardinality(ErrorEvents) = 1
    /\ \A i \in ErrorEvents :
          /\ log[i].json.step = "query_error"
          /\ log[i].json.error = str(result.exc)
          /\ log[i].json.error_type = type_name(result.exc)

\* C20, as claimed: every failing run emits exactly one ERROR-level event,
\* the query_error event with the error message and kind, and a successful
\* run emits none.  (Spec)
C20_OneErrorEventPerFailure ==
    Finished =>
        /\ result.kind = "raised" => OneQueryError
        /\ result.kind = "returned" => ErrorEvents = {}

\* C20, amended: a run rejected for an empty question emits no event; every
\* other failing run emits exactly one ERROR-level event, query_error with
\* the error message and kind, unless log_event itself raised on the run's
\* first event, in which case the run emits no event and raises that
\* TypeError; a successful run emits no ERROR-level event.  (Spec)
C20_OneErrorEventPerPipelineFailure ==
    Finished =>
        /\ (result.kind = "raised" /\ ~Accepted) => log = <<>>
        /\ (result.kind = "raised" /\ Accepted) =>
              \/ OneQueryError /\ log[Len(log)].level = "ERROR"
              \/ log = <<>> /\ type_name(result.exc) = "TypeError"
                            /\ obs.gen_calls = 0
        /\ result.kind = "returned" => (ErrorEvents = {} /\ log # <<>>)

\* the generation client raised an error that is not a CortexClientError:
\* the run failed with it and logged one query_error at ERROR level
C20_Witness ==
    /\ Finished
    /\ Accepted
    /\ obs.gen.exc = Exc("RuntimeError", "connection reset")
    /\ result = Raised(obs.gen.exc)
    /\ OneQueryError
    /\ Len(log) = 5

(***************************************************************************)
(* Claims about the order of the stages of run and about what its entry    *)
(* holds, checked under Spec.                                              *)
(***************************************************************************)
\* the steps logged by the current invocation, in order
Steps == [i \in 1..Len(log) |-> log[i].json.step]
\* the events of a run that meets no failure
StageOrder ==
    <<"query_start", "enhance_completed", "enhanced", "cortex_total_completed",
      "query_success">>
IsPrefix(s, t) == Len(s) <= Len(t) /\ SubSeq(t, 1, Len(s)) = s

\* C27: the events of a run appear in the order query_start,
\* enhance_completed, enhanced, cortex_total_completed, then query_success or
\* query_error as the last one; the generation client is called only after
\* the first three; the entry is recorded only after the last event, and run
\* returns or raises only after the entry is recorded
C27_StagesInOrder ==
    /\ \/ IsPrefix(Steps, StageOrder)
       \/ /\ Steps # <<>>
          /\ Steps[Len(Steps)] = "query_error"
          /\ IsPrefix(SubSeq(Steps, 1, Len(Steps) - 1), StageOrder)
          /\ Len(Steps) <= Len(StageOrder)
    /\ obs.gen_calls = 0 => CountStep(log, "cortex_total_completed") = 0
    /\ obs.gen_calls > 0 =>
          /\ Len(Steps) >= 4
          /\ SubSeq(Steps, 1, 4) = SubSeq(StageOrder, 1, 4)
          /\ \E today \in Dates : frame.enhanced = enhance_query(frame.user_query, today)
    /\ frame.pc \in {"query_start", "enhance", "enhanced", "cortex_total", "capture"}
          => /\ obs.recorded = 0
             /\ IsPrefix(Steps, SubSeq(StageOrder, 1, 4))
    /\ frame.pc \in {"query_success", "except"} => obs.recorded = 0
    /\ obs.recorded > 0 =>
          /\ frame.pc \in {"exit", "idle"}
          /\ Steps # <<>> => Steps[Len(Steps)] \in {"query_success", "query_error"}
    /\ (result.kind # "none" /\ Accepted) => (frame.pc = "idle" /\ obs.recorded = 1)

\* a run went through every stage and returned
C27_Witness ==
    /\ Finished
    /\ result.kind = "returned"
    /\ Steps = StageOrder
    /\ obs.gen_calls = 1
    /\ obs.recorded = 1

\* C28: the entry recorded by a run that returned a result has no
\* error_message, and the entry recorded by a run that raised carries the
\* message of the error raised to the caller
C28_ErrorMessageIffRaised ==
    (Finished /\ Accepted) =>
        /\ LastEntry.oid = runs
        /\ result.kind = "returned" => LastEntry.error_message = NoneVal
        /\ result.kind = "raised" => LastEntry.error_message = str(result.exc)
        /\ result.kind = "raised" => LastEntry.error_message # NoneVal

\* the generation client raised and the entry carries its message
C28_Witness ==
    /\ Finished
    /\ result.kind = "raised"
    /\ type_name(result.exc) = "CortexClientError"
    /\ LastEntry.oid = runs
    /\ LastEntry.error_message = "Snowflake error: boom"

\* C29: the entry recorded by run(question, t) and the result it returns
\* carry t, whatever identifier is bound in the trace context, and
\* get_query_by_trace_id(t) returns that entry right after the run when no
\* older retained entry carries t
C29_EntryCarriesArgument ==
    (Finished /\ Accepted) =>
        /\ LastEntry.oid = runs
        /\ LastEntry.trace_id = frame.trace_id
        /\ result.kind = "returned" => result.value.trace_id = frame.trace_id
        /\ (\A i \in 1..(Len(queries) - 1) : queries[i].trace_id # frame.trace_id)
              => get_query_by_trace_id(queries, frame.trace_id) = << to_dict(LastEntry) >>

\* a run given an identifier other than the bound one failed; its entry
\* carries the argument and the lookup returns it
C29_Witness ==
    /\ Finished
    /\ Accepted
    /\ result.kind = "raised"
    /\ trace_id_var[MainContext] \in TraceIds
    /\ trace_id_var[MainContext] # frame.trace_id
    /\ LastEntry.trace_id = frame.trace_id
    /\ get_query_by_trace_id(queries, frame.trace_id) = << to_dict(LastEntry) >>

====
